---------------------------- MODULE Spec2Model ----------------------------
(***************************************************************************)
(* Model of the adaptive_rest mock HTTP server: the endpoint routing table *)
(* (src/server/endpoint.rs), the shared, lock-guarded table and the HTTP   *)
(* dispatcher (src/server/mod.rs), the console loop and its commands       *)
(* (src/app/app_state.rs, src/command.rs) and the logger (src/logger.rs).  *)
(*                                                                         *)
(* A path string is a sequence of one-character strings, a segment is a    *)
(* non-empty sequence of characters other than "/", a body is an opaque    *)
(* value.  Option::None is the value None.                                 *)
(***************************************************************************)
EXTENDS Integers, Sequences, FiniteSets, TLC

(***************************************************************************)
(* Bounds of the model.                                                    *)
(***************************************************************************)
\* longest path string given to the table in the store-level specification
MaxPathLen == 3
\* most bodies registered in the table at one time
MaxEntries == 2

\* most log lines sent before the listener and the console take up no further
\* request or command
MaxLines == 4
\* the command lines a console run executes at most
MaxHistory == 2

\* the characters of path strings: the separator and one segment character
Chars == {"/", "a"}
\* a sample of http::Method
Methods == {"GET", "POST"}
\* a sample of response bodies
Bodies == {"b1", "b2"}

\* the path of the health service, "/api/health", as a two-segment path over
\* the characters "/", "a" and "h"
HealthPath == <<"/", "a", "/", "h">>
\* the body the health service answers with
HealthBody == "OK"

\* the slots for HTTP requests in flight
Reqs == {"r1"}
\* the requests sent to the listener: the health request, the health path with
\* a trailing '/', the health path with another method, a one-segment path
Requests ==
    {[method |-> "GET", path |-> HealthPath],
     [method |-> "GET", path |-> HealthPath \o <<"/">>],
     [method |-> "POST", path |-> HealthPath],
     [method |-> "GET", path |-> <<"/", "a">>]}
\* the paths typed at the console: the health path and a path without the
\* leading '/'
ConsolePaths == {HealthPath, <<"a">>}

None == "None"

\* the METHOD tokens typed at the console: two spellings of each method and a
\* word that names no method
MethodTokens == {"GET", "get", "POST", "post", "FETCH"}

PathStrings == UNION {[1..n -> Chars] : n \in 0..MaxPathLen}

VARIABLES
    store,      \* EndpointStore.entries: method -> PathNode (the method roots)
    call,       \* the last call made on the store: [op, method, path, body]
    ret,        \* what that call returned: [was_update, body]
    registered, \* history: <<method, segment list>> -> the body the calls made
                \* so far have registered there and not deleted since
    readers,    \* RwLock: the holders of a read guard
    writer,     \* RwLock: the holder of the write guard, None when there is none
    poisoned,   \* RwLock: whether the lock is poisoned
    req,        \* the HTTP requests in flight: request, position, response
    cmd,        \* the console command being executed: command, position, result
    chan,       \* the log channel: the lines sent and not yet received
    messages,   \* App.messages: the lines the console has received
    sent,       \* history: every line sent on the log channel, in order
    input,      \* App.input: the command line being edited, its characters
    history,    \* App.history: the command lines executed, oldest first
    history_index, \* App.history_index: None, or how far back the recall is
    mode        \* App.mode: "Normal" or "Insert"

vars == <<store, call, ret, registered, readers, writer, poisoned, req, cmd,
          chan, messages, sent, input, history, history_index, mode>>

\* the variables of the shared table and its users, which the store driven
\* directly leaves alone
serverVars == <<readers, writer, poisoned, req, cmd, chan, messages, sent>>

\* the log channel and the message list
logVars == <<chan, messages, sent>>

\* Option<usize>: None is the empty sequence and Some(i) the sequence of i
NoIndex == <<>>

Some(i) == <<i>>

\* the line editor of the console
keyVars == <<input, history, history_index, mode>>

(***************************************************************************)
(* Strings.                                                                *)
(***************************************************************************)
\* byte order of the characters, the order of String in a BTreeMap
CharCode(c) == IF c = "/" THEN 47 ELSE IF c = "a" THEN 97 ELSE 104

\* s < t in the lexicographic (byte-wise) order of Rust strings
RECURSIVE StrLess(_, _)
StrLess(s, t) ==
    IF t = <<>> THEN FALSE
    ELSE IF s = <<>> THEN TRUE
    ELSE IF Head(s) = Head(t) THEN StrLess(Tail(s), Tail(t))
    ELSE CharCode(Head(s)) < CharCode(Head(t))

RECURSIVE TrimStart(_)
TrimStart(s) ==
    IF s # <<>> /\ Head(s) = "/" THEN TrimStart(Tail(s)) ELSE s

RECURSIVE TrimEnd(_)
TrimEnd(s) ==
    IF s # <<>> /\ s[Len(s)] = "/" THEN TrimEnd(SubSeq(s, 1, Len(s) - 1)) ELSE s

\* str::trim_matches('/')
TrimMatches(s) == TrimEnd(TrimStart(s))

\* str::split('/'): the pieces between separators, empty pieces included;
\* the split of the empty string is one empty piece
RECURSIVE SplitFrom(_, _)
SplitFrom(s, cur) ==
    IF s = <<>> THEN <<cur>>
    ELSE IF Head(s) = "/" THEN <<cur>> \o SplitFrom(Tail(s), <<>>)
    ELSE SplitFrom(Tail(s), Append(cur, Head(s)))

Split(s) == SplitFrom(s, <<>>)

\* Iterator::filter(|s| !s.is_empty())
RECURSIVE FilterNonEmpty(_)
FilterNonEmpty(pieces) ==
    IF pieces = <<>> THEN <<>>
    ELSE IF Head(pieces) = <<>> THEN FilterNonEmpty(Tail(pieces))
    ELSE <<Head(pieces)>> \o FilterNonEmpty(Tail(pieces))

(***************************************************************************)
(* PathNode.                                                               *)
(***************************************************************************)
NoChildren == [s \in {} |-> None]

\* PathNode::default()
DefaultNode == [body |-> None, children |-> NoChildren]

\* NodeIsEmpty that looks at the body only
NodeIsEmptyNoBody(node) == node.body = None

\* PathNode::is_empty
NodeIsEmpty(node) == node.body = None /\ DOMAIN node.children = {}

\* the segments PathNode::walk iterates over
WalkSegments(path) == FilterNonEmpty(Split(TrimMatches(path)))

\* WalkFrom matching the longest registered prefix: a missing child ends the
\* walk at the node reached so far
RECURSIVE WalkFromPrefix(_, _)
WalkFromPrefix(node, segments) ==
    IF segments = <<>> THEN [found |-> TRUE, node |-> node]
    ELSE IF Head(segments) \in DOMAIN node.children
         THEN WalkFromPrefix(node.children[Head(segments)], Tail(segments))
         ELSE [found |-> TRUE, node |-> node]

\* the loop of PathNode::walk over the segments: the node reached, if any
RECURSIVE WalkFrom(_, _)
WalkFrom(node, segments) ==
    IF segments = <<>> THEN [found |-> TRUE, node |-> node]
    ELSE IF Head(segments) \in DOMAIN node.children
         THEN WalkFrom(node.children[Head(segments)], Tail(segments))
         ELSE [found |-> FALSE, node |-> DefaultNode]

\* PathNode::walk
Walk(node, path) == WalkFrom(node, WalkSegments(path))

\* the segments PathNode::walk_or_create iterates over
WalkOrCreateSegments(path) == FilterNonEmpty(Split(TrimMatches(path)))

\* ChildOrDefault that puts a new node in place of the child that is there
ChildAlwaysDefault(node, segment) == DefaultNode

\* children.entry(segment).or_default(): the child, created when absent
ChildOrDefault(node, segment) ==
    IF segment \in DOMAIN node.children THEN node.children[segment] ELSE DefaultNode

\* children with the entry for segment set to child
WithChild(children, segment, child) ==
    [s \in DOMAIN children \cup {segment} |->
        IF s = segment THEN child ELSE children[s]]

\* the loop of PathNode::walk_or_create: the tree with every node on the way
\* to the segments created; no body is changed
RECURSIVE WalkOrCreateFrom(_, _)
WalkOrCreateFrom(node, segments) ==
    IF segments = <<>> THEN node
    ELSE [node EXCEPT !.children =
            WithChild(node.children, Head(segments),
                      WalkOrCreateFrom(ChildOrDefault(node, Head(segments)),
                                       Tail(segments)))]

\* PathNode::walk_or_create
WalkOrCreate(node, path) == WalkOrCreateFrom(node, WalkOrCreateSegments(path))

\* node.body = Some(body) through the reference walk_or_create returned
RECURSIVE SetBodyAt(_, _, _)
SetBodyAt(node, segments, body) ==
    IF segments = <<>> THEN [node EXCEPT !.body = body]
    ELSE [node EXCEPT !.children[Head(segments)] =
            SetBodyAt(node.children[Head(segments)], Tail(segments), body)]

\* children.remove(segment)
WithoutChild(children, segment) ==
    [s \in DOMAIN children \ {segment} |-> children[s]]

\* DeleteRecursive that never removes a child
RECURSIVE DeleteRecursiveNoPrune(_, _)
DeleteRecursiveNoPrune(node, segments) ==
    IF segments = <<>>
    THEN LET taken == [node EXCEPT !.body = None]
         IN  [body |-> node.body, prune |-> NodeIsEmpty(taken), node |-> taken]
    ELSE IF Head(segments) \in DOMAIN node.children
    THEN LET r == DeleteRecursiveNoPrune(node.children[Head(segments)], Tail(segments))
             after ==
                 [node EXCEPT !.children =
                    WithChild(node.children, Head(segments), r.node)]
         IN  [body |-> r.body, prune |-> NodeIsEmpty(after), node |-> after]
    ELSE [body |-> None, prune |-> FALSE, node |-> node]

\* DeleteRecursive whose terminal case asks for pruning whenever the node is
\* left without a body, its children not looked at
RECURSIVE DeleteRecursiveIgnoresChildren(_, _)
DeleteRecursiveIgnoresChildren(node, segments) ==
    IF segments = <<>>
    THEN LET taken == [node EXCEPT !.body = None]
         IN  [body |-> node.body, prune |-> TRUE, node |-> taken]
    ELSE IF Head(segments) \in DOMAIN node.children
    THEN LET r == DeleteRecursiveIgnoresChildren(node.children[Head(segments)],
                                                 Tail(segments))
             after ==
                 [node EXCEPT !.children =
                    IF r.prune THEN WithoutChild(node.children, Head(segments))
                    ELSE WithChild(node.children, Head(segments), r.node)]
         IN  [body |-> r.body, prune |-> NodeIsEmpty(after), node |-> after]
    ELSE [body |-> None, prune |-> FALSE, node |-> node]

\* DeleteRecursive that removes the visited child whenever a body was removed
\* below it, whether or not the child asked to be pruned
RECURSIVE DeleteRecursiveDropsChild(_, _)
DeleteRecursiveDropsChild(node, segments) ==
    IF segments = <<>>
    THEN LET taken == [node EXCEPT !.body = None]
         IN  [body |-> node.body, prune |-> NodeIsEmpty(taken), node |-> taken]
    ELSE IF Head(segments) \in DOMAIN node.children
    THEN LET r == DeleteRecursiveDropsChild(node.children[Head(segments)],
                                            Tail(segments))
             after ==
                 [node EXCEPT !.children =
                    IF r.body # None THEN WithoutChild(node.children, Head(segments))
                    ELSE WithChild(node.children, Head(segments), r.node)]
         IN  [body |-> r.body, prune |-> NodeIsEmpty(after), node |-> after]
    ELSE [body |-> None, prune |-> FALSE, node |-> node]

\* DeleteRecursive that returns the body and leaves it in the node
RECURSIVE DeleteRecursiveKeepsBody(_, _)
DeleteRecursiveKeepsBody(node, segments) ==
    IF segments = <<>>
    THEN [body |-> node.body, prune |-> NodeIsEmpty(node), node |-> node]
    ELSE IF Head(segments) \in DOMAIN node.children
    THEN LET r == DeleteRecursiveKeepsBody(node.children[Head(segments)],
                                           Tail(segments))
             after ==
                 [node EXCEPT !.children =
                    IF r.prune THEN WithoutChild(node.children, Head(segments))
                    ELSE WithChild(node.children, Head(segments), r.node)]
         IN  [body |-> r.body, prune |-> NodeIsEmpty(after), node |-> after]
    ELSE [body |-> None, prune |-> FALSE, node |-> node]

\* PathNode::delete_recursive: (removed body, should_prune_self) and the node
\* as the call leaves it
RECURSIVE DeleteRecursive(_, _)
DeleteRecursive(node, segments) ==
    IF segments = <<>>
    THEN LET taken == [node EXCEPT !.body = None]
         IN  [body |-> node.body, prune |-> NodeIsEmpty(taken), node |-> taken]
    ELSE IF Head(segments) \in DOMAIN node.children
    THEN LET r == DeleteRecursive(node.children[Head(segments)], Tail(segments))
             after ==
                 [node EXCEPT !.children =
                    IF r.prune THEN WithoutChild(node.children, Head(segments))
                    ELSE WithChild(node.children, Head(segments), r.node)]
         IN  [body |-> r.body, prune |-> NodeIsEmpty(after), node |-> after]
    ELSE [body |-> None, prune |-> FALSE, node |-> node]

\* SortedKeys in descending order
RECURSIVE SortedKeysDescending(_)
SortedKeysDescending(keys) ==
    IF keys = {} THEN <<>>
    ELSE LET greatest == CHOOSE k \in keys : \A o \in keys \ {k} : StrLess(o, k)
         IN  <<greatest>> \o SortedKeysDescending(keys \ {greatest})

\* the keys of a BTreeMap<String, _> in its iteration order (ascending)
RECURSIVE SortedKeys(_)
SortedKeys(keys) ==
    IF keys = {} THEN <<>>
    ELSE LET least == CHOOSE k \in keys : \A o \in keys \ {k} : StrLess(k, o)
         IN  <<least>> \o SortedKeys(keys \ {least})

\* CollectEntries without the special case of the root: the accumulated path
\* is pushed as it is
RECURSIVE CollectEntriesPlainPath(_, _, _)
RECURSIVE CollectChildrenPlainPath(_, _, _, _)
CollectEntriesPlainPath(node, path, results) ==
    LET pushed ==
            IF node.body # None THEN Append(results, <<path, node.body>>)
            ELSE results
    IN  CollectChildrenPlainPath(node, SortedKeys(DOMAIN node.children), path, pushed)

CollectChildrenPlainPath(node, segments, path, results) ==
    IF segments = <<>> THEN results
    ELSE CollectChildrenPlainPath(node, Tail(segments), path,
            CollectEntriesPlainPath(node.children[Head(segments)],
                                    path \o <<"/">> \o Head(segments), results))

\* PathNode::collect_entries: results with the entries of the subtree pushed,
\* each <<full_path, body>>
RECURSIVE CollectEntries(_, _, _)
RECURSIVE CollectChildren(_, _, _, _)
CollectEntries(node, path, results) ==
    LET pushed ==
            IF node.body # None
            THEN Append(results, <<IF path = <<>> THEN <<"/">> ELSE path, node.body>>)
            ELSE results
    IN  CollectChildren(node, SortedKeys(DOMAIN node.children), path, pushed)

\* the for loop of collect_entries over the children
CollectChildren(node, segments, path, results) ==
    IF segments = <<>> THEN results
    ELSE CollectChildren(node, Tail(segments), path,
            CollectEntries(node.children[Head(segments)],
                           path \o <<"/">> \o Head(segments), results))

(***************************************************************************)
(* EndpointStore.                                                          *)
(***************************************************************************)
\* EndpointStore::default()
EmptyStore == [m \in {} |-> DefaultNode]

\* Add that reads was_update after the body is written
AddReadsAfterWrite(entries, method, path, body) ==
    LET root == IF method \in DOMAIN entries THEN entries[method] ELSE DefaultNode
        segments == WalkOrCreateSegments(path)
        created == WalkOrCreate(root, path)
        written == SetBodyAt(created, segments, body)
        was_update == WalkFrom(written, segments).node.body # None
    IN  [entries |-> [m \in DOMAIN entries \cup {method} |->
                        IF m = method THEN written ELSE entries[m]],
         was_update |-> was_update]

\* EndpointStore::add: the store after the call and was_update
Add(entries, method, path, body) ==
    LET root == IF method \in DOMAIN entries THEN entries[method] ELSE DefaultNode
        segments == WalkOrCreateSegments(path)
        created == WalkOrCreate(root, path)
        was_update == WalkFrom(created, segments).node.body # None
        written == SetBodyAt(created, segments, body)
    IN  [entries |-> [m \in DOMAIN entries \cup {method} |->
                        IF m = method THEN written ELSE entries[m]],
         was_update |-> was_update]

\* EndpointStore::get
Get(entries, method, path) ==
    IF method \notin DOMAIN entries THEN None
    ELSE LET w == Walk(entries[method], path)
         IN  IF w.found THEN w.node.body ELSE None

\* DeleteSegments without the filter of empty segments
DeleteSegmentsUnfiltered(path) == Split(TrimMatches(path))

\* the segments EndpointStore::delete collects
DeleteSegments(path) == FilterNonEmpty(Split(TrimMatches(path)))

\* Delete that clears the whole table when the method root is to be pruned
DeleteClearsTable(entries, method, path) ==
    IF method \notin DOMAIN entries THEN [entries |-> entries, body |-> None]
    ELSE LET r == DeleteRecursive(entries[method], DeleteSegments(path))
         IN  [entries |->
                IF r.prune THEN [m \in {} |-> DefaultNode]
                ELSE [entries EXCEPT ![method] = r.node],
              body |-> r.body]

\* EndpointStore::delete: the store after the call and the removed body
Delete(entries, method, path) ==
    IF method \notin DOMAIN entries THEN [entries |-> entries, body |-> None]
    ELSE LET r == DeleteRecursive(entries[method], DeleteSegments(path))
         IN  [entries |->
                IF r.prune THEN [m \in DOMAIN entries \ {method} |-> entries[m]]
                ELSE [entries EXCEPT ![method] = r.node],
              body |-> r.body]

\* EndpointStore::add up to the return of walk_or_create: the method root and
\* the nodes on the way to the path created, the body not yet written
AddCreated(entries, method, path) ==
    LET root == IF method \in DOMAIN entries THEN entries[method] ELSE DefaultNode
    IN  [m \in DOMAIN entries \cup {method} |->
            IF m = method THEN WalkOrCreate(root, path) ELSE entries[m]]

\* DeleteTaken that returns the body and leaves it in the node
DeleteTakenKeepsBody(entries, method, path) ==
    IF method \notin DOMAIN entries THEN [entries |-> entries, body |-> None]
    ELSE LET w == WalkFrom(entries[method], DeleteSegments(path))
         IN  IF w.found THEN [entries |-> entries, body |-> w.node.body]
             ELSE [entries |-> entries, body |-> None]

\* EndpointStore::delete up to self.body.take() in the node of the path: the
\* body taken out of the node, no node removed yet
DeleteTaken(entries, method, path) ==
    IF method \notin DOMAIN entries THEN [entries |-> entries, body |-> None]
    ELSE LET w == WalkFrom(entries[method], DeleteSegments(path))
         IN  IF w.found
             THEN [entries |-> [entries EXCEPT ![method] =
                                  SetBodyAt(@, DeleteSegments(path), None)],
                   body |-> w.node.body]
             ELSE [entries |-> entries, body |-> None]

\* the way back up of delete_recursive from the node of the path: each child
\* that reports itself empty is removed; should_prune_self and the node
RECURSIVE UnwindFrom(_, _)
UnwindFrom(node, segments) ==
    IF segments = <<>> THEN [prune |-> NodeIsEmpty(node), node |-> node]
    ELSE IF Head(segments) \in DOMAIN node.children
    THEN LET r == UnwindFrom(node.children[Head(segments)], Tail(segments))
             after ==
                 [node EXCEPT !.children =
                    IF r.prune THEN WithoutChild(node.children, Head(segments))
                    ELSE WithChild(node.children, Head(segments), r.node)]
         IN  [prune |-> NodeIsEmpty(after), node |-> after]
    ELSE [prune |-> FALSE, node |-> node]

\* EndpointStore::delete after the body is taken: the nodes left empty removed,
\* the method root with them
DeleteUnwind(entries, method, path) ==
    IF method \notin DOMAIN entries THEN entries
    ELSE LET r == UnwindFrom(entries[method], DeleteSegments(path))
         IN  IF r.prune THEN [m \in DOMAIN entries \ {method} |-> entries[m]]
             ELSE [entries EXCEPT ![method] = r.node]

\* EndpointStore::entries_by
EntriesBy(entries, method) ==
    IF method \in DOMAIN entries
    THEN CollectEntries(entries[method], <<>>, <<>>)
    ELSE <<>>

\* EndpointStore::entries: one group <<method, entries_by(method)>> for each
\* key that passes the filter (by_method = None keeps every key).  The order
\* of the groups is the HashMap's, which is unspecified: the groups are a set.
Entries(entries, by_method) ==
    {<<m, EntriesBy(entries, m)>> :
        m \in {k \in DOMAIN entries : by_method = None \/ k = by_method}}

\* EndpointStore::is_empty, called by list_endpoints
IsEmpty(entries) == DOMAIN entries = {}

\* the number of bodies registered in the store
EntryCount(entries) ==
    LET RECURSIVE Sum(_)
        Sum(ms) == IF ms = {} THEN 0
                   ELSE LET m == CHOOSE x \in ms : TRUE
                        IN  Len(EntriesBy(entries, m)) + Sum(ms \ {m})
    IN  Sum(DOMAIN entries)

(***************************************************************************)
(* ServerState.                                                            *)
(***************************************************************************)
\* valid_path of ServerState::add_endpoint: the path, a '/' put in front of it
\* when it does not start with one
ValidPath(path) ==
    IF path # <<>> /\ Head(path) = "/" THEN path ELSE <<"/">> \o path

(***************************************************************************)
(* Path identity as the specification states it, and the record of what    *)
(* has been registered.                                                    *)
(***************************************************************************)
\* trim leading and trailing '/', split on '/', drop the empty segments
Normalize(path) == FilterNonEmpty(Split(TrimMatches(path)))

NothingRegistered == [k \in {} |-> None]

\* the mark left in `registered` by a console delete that removed an entry
Deleted == "deleted"

\* the <<method, segments>> a body is registered at
RegisteredKeys == {k \in DOMAIN registered : registered[k] # Deleted}

\* the body registered at (method, segments), None when there is none
RegBody(method, segments) ==
    IF <<method, segments>> \in RegisteredKeys
    THEN registered[<<method, segments>>]
    ELSE None

\* what the writes that have returned left at (method, segments): a body,
\* Deleted, or "never" when none of them was for it
LastWrite(method, segments) ==
    IF <<method, segments>> \in DOMAIN registered
    THEN registered[<<method, segments>>]
    ELSE "never"

Register(reg, method, segments, body) ==
    [k \in DOMAIN reg \cup {<<method, segments>>} |->
        IF k = <<method, segments>> THEN body ELSE reg[k]]

Unregister(reg, method, segments) ==
    [k \in DOMAIN reg \ {<<method, segments>>} |-> reg[k]]

(***************************************************************************)
(* The logger and the console's command line.                              *)
(***************************************************************************)
\* log::Level, the most severe first
Levels == <<"ERROR", "WARN", "INFO", "DEBUG", "TRACE">>

LevelRank(level) == CHOOSE i \in 1..Len(Levels) : Levels[i] = level

\* the level main initializes TuiLogger with
LoggerLevel == "INFO"

\* TuiLogger::enabled
Enabled(level) == LevelRank(level) <= LevelRank(LoggerLevel)

\* the message TuiLogger::log formats, "[LEVEL] args": the level, the text of
\* the line and what it is about
Line(level, text, arg) == [level |-> level, text |-> text, arg |-> arg]

\* Log that sends the line twice
LogTwice(ch, level, text, arg) ==
    IF Enabled(level)
    THEN Append(Append(ch, Line(level, text, arg)), Line(level, text, arg))
    ELSE ch

\* TuiLogger::log: the channel after the line is sent if its level is enabled
Log(ch, level, text, arg) ==
    IF Enabled(level) THEN Append(ch, Line(level, text, arg)) ELSE ch

\* main: log::info!("Application starting"), before the console is created
StartingLine == Line("INFO", "Application starting", None)

\* the name clap gives the value of an HttpMethod variant: the variant in
\* kebab case
ValueName(method) == IF method = "GET" THEN "get" ELSE "post"

\* str::to_ascii_lowercase on the tokens
AsciiLower(token) ==
    CASE token = "GET" -> "get"
      [] token = "POST" -> "post"
      [] token = "FETCH" -> "fetch"
      [] OTHER -> token

\* clap matching a token against the value of a variant, with or without
\* ignore_case
MatchesValue(token, method, ignore_case) ==
    IF ignore_case THEN AsciiLower(token) = AsciiLower(ValueName(method))
    ELSE token = ValueName(method)

\* clap parsing a METHOD argument: the method, None when no value matches
ParseMethod(token, ignore_case) ==
    IF \E m \in Methods : MatchesValue(token, m, ignore_case)
    THEN CHOOSE m \in Methods : MatchesValue(token, m, ignore_case)
    ELSE None

\* the method argument of `endpoint add`, declared with ignore_case = true
AddMethod(token) == ParseMethod(token, TRUE)

\* the method argument of `endpoint delete`, declared without ignore_case
DeleteMethod(token) == ParseMethod(token, FALSE)

\* the method argument of `endpoint list`, declared with ignore_case = true
ListMethod(token) == ParseMethod(token, TRUE)

\* the orders in which a set of methods can be iterated over
Orders(S) ==
    {sq \in [1..Cardinality(S) -> S] :
        \A i, j \in 1..Cardinality(S) : sq[i] = sq[j] => i = j}

\* the lines list_endpoints logs for the groups, one for each method in order
RECURSIVE LogGroups(_, _)
LogGroups(ch, order) ==
    IF order = <<>> THEN ch
    ELSE LogGroups(Log(ch, "INFO", "Listing", Head(order)), Tail(order))

(***************************************************************************)
(* The store driven directly, as its unit tests drive it.                  *)
(***************************************************************************)
NoRet == [was_update |-> FALSE, body |-> None]

\* no call is in progress: the caller is about to make its next call
NoCall == [op |-> "none", method |-> "GET", path |-> <<>>, body |-> None]

\* no request in the slot
IdleReq ==
    [pc |-> "idle", method |-> "GET", path |-> <<>>, expect |-> "never",
     status |-> 0, body |-> None, errpath |-> <<>>]

\* the console is waiting for the next command
IdleCmd ==
    [pc |-> "idle", op |-> "none", method |-> None, path |-> <<>>, body |-> None,
     was_updated |-> FALSE, taken |-> None, result |-> "none", errpath |-> <<>>,
     line |-> None, token |-> None]

\* main: ServerState::new(), the HTTP listener and the console started
Init ==
    /\ store = EmptyStore
    /\ call = NoCall
    /\ ret = NoRet
    /\ registered = NothingRegistered
    /\ readers = {}
    /\ writer = None
    /\ poisoned = FALSE
    /\ req = [r \in Reqs |-> IdleReq]
    /\ cmd = [IdleCmd EXCEPT !.pc = "drain"]
    /\ chan = <<StartingLine>>
    /\ messages = <<>>
    /\ sent = <<StartingLine>>
    /\ input = <<>>
    /\ history = <<>>
    /\ history_index = NoIndex
    /\ mode = "Normal"

\* store.add(method, path, body)
StoreAdd(method, path, body) ==
    LET r == Add(store, method, path, body)
    IN  /\ call = NoCall
        /\ EntryCount(r.entries) <= MaxEntries
        /\ store' = r.entries
        /\ call' = [op |-> "add", method |-> method, path |-> path, body |-> body]
        /\ ret' = [was_update |-> r.was_update, body |-> None]
        /\ registered' = Register(registered, method, Normalize(path), body)
        /\ UNCHANGED <<serverVars, keyVars>>

\* store.get(method, path)
StoreGet(method, path) ==
    /\ call = NoCall
    /\ store' = store
    /\ call' = [op |-> "get", method |-> method, path |-> path, body |-> None]
    /\ ret' = [was_update |-> FALSE, body |-> Get(store, method, path)]
    /\ registered' = registered
    /\ UNCHANGED <<serverVars, keyVars>>

\* store.delete(method, path)
StoreDelete(method, path) ==
    LET r == Delete(store, method, path)
    IN  /\ call = NoCall
        /\ store' = r.entries
        /\ call' = [op |-> "delete", method |-> method, path |-> path, body |-> None]
        /\ ret' = [was_update |-> FALSE, body |-> r.body]
        /\ registered' = Unregister(registered, method, Normalize(path))
        /\ UNCHANGED <<serverVars, keyVars>>

\* the caller has looked at the returned value and goes on to its next call
StoreReturn ==
    /\ call # NoCall
    /\ call' = NoCall
    /\ ret' = NoRet
    /\ UNCHANGED <<store, registered>>
    /\ UNCHANGED <<serverVars, keyVars>>

Next ==
    \/ StoreReturn
    \/ \E m \in Methods, p \in PathStrings, b \in Bodies : StoreAdd(m, p, b)
    \/ \E m \in Methods, p \in PathStrings : StoreGet(m, p)
    \/ \E m \in Methods, p \in PathStrings : StoreDelete(m, p)

Spec == Init /\ [][Next]_vars

(***************************************************************************)
(* The shared table: the HTTP dispatcher and the console commands, each     *)
(* taking the RwLock around the store.                                      *)
(***************************************************************************)
\* the process is running: App::run has not returned
Running == cmd.pc # "exited"

\* a console add or delete on (method, segments) has been started and has not
\* returned yet
WriteInFlight(method, segments) ==
    /\ cmd.pc \in {"wait", "hold", "mid", "ret"}
    /\ cmd.op \in {"add", "delete"}
    /\ cmd.method = method
    /\ Normalize(cmd.path) = segments

\* IsHealth that gives way to an endpoint registered at the path
IsHealthUnlessRegistered(method, path) ==
    method = "GET" /\ path = HealthPath /\ Get(store, method, path) = None

\* the route of the health service matches the request
IsHealth(method, path) == method = "GET" /\ path = HealthPath

\* health: GET /api/health is answered "OK", the table not looked at
Health(r, method, path) ==
    /\ Running
    /\ req[r].pc = "idle"
    /\ Len(sent) < MaxLines
    /\ IsHealth(method, path)
    /\ req' = [req EXCEPT ![r] =
                 [pc |-> "done", method |-> method, path |-> path,
                  expect |-> IF WriteInFlight(method, Normalize(path)) THEN "any"
                             ELSE LastWrite(method, Normalize(path)),
                  status |-> 200, body |-> HealthBody, errpath |-> <<>>]]
    /\ UNCHANGED <<store, call, ret, keyVars, registered, readers, writer, poisoned, cmd>>
    /\ UNCHANGED logVars

\* a request that no service matches is handed to catch_all
CatchAllEnter(r, method, path) ==
    /\ Running
    /\ req[r].pc = "idle"
    /\ Len(sent) < MaxLines
    /\ ~IsHealth(method, path)
    /\ req' = [req EXCEPT ![r] =
                 [pc |-> "wait", method |-> method, path |-> path,
                  expect |-> IF WriteInFlight(method, Normalize(path)) THEN "any"
                             ELSE LastWrite(method, Normalize(path)),
                  status |-> 0, body |-> None, errpath |-> <<>>]]
    /\ UNCHANGED <<store, call, ret, keyVars, registered, readers, writer, poisoned, cmd>>
    /\ UNCHANGED logVars

\* CatchAllRead that takes the read guard while the write guard is held
CatchAllReadNoWait(r) ==
    /\ Running
    /\ req[r].pc = "wait"
    /\ IF poisoned
       THEN /\ req' = [req EXCEPT ![r].pc = "done", ![r].status = 500]
            /\ readers' = readers
       ELSE /\ req' = [req EXCEPT ![r].pc = "hold"]
            /\ readers' = readers \cup {r}
    /\ UNCHANGED <<store, call, ret, keyVars, registered, writer, poisoned, cmd>>
    /\ UNCHANGED logVars

\* catch_all: state.endpoints.read(), which waits while the write guard is
\* held; on a poisoned lock the answer is 500
CatchAllRead(r) ==
    /\ Running
    /\ req[r].pc = "wait"
    /\ writer = None
    /\ IF poisoned
       THEN /\ req' = [req EXCEPT ![r].pc = "done", ![r].status = 500]
            /\ readers' = readers
       ELSE /\ req' = [req EXCEPT ![r].pc = "hold"]
            /\ readers' = readers \cup {r}
    /\ UNCHANGED <<store, call, ret, keyVars, registered, writer, poisoned, cmd>>
    /\ UNCHANGED logVars

\* CatchAllResponse that looks the path up under GET whatever the method of
\* the request
CatchAllResponseAnyMethod(entries, request) ==
    LET response == Get(entries, "GET", request.path)
    IN  IF response # None
        THEN [request EXCEPT !.pc = "done", !.status = 200, !.body = response]
        ELSE [request EXCEPT !.pc = "done", !.status = 404,
                             !.errpath = request.path]

\* the response catch_all builds from the lookup
CatchAllResponse(entries, request) ==
    LET response == Get(entries, request.method, request.path)
    IN  IF response # None
        THEN [request EXCEPT !.pc = "done", !.status = 200, !.body = response]
        ELSE [request EXCEPT !.pc = "done", !.status = 404,
                             !.errpath = request.path]

\* CatchAllRespond that returns with the read guard still held
CatchAllRespondKeepsGuard(r) ==
    /\ Running
    /\ req[r].pc = "hold"
    /\ req' = [req EXCEPT ![r] = CatchAllResponse(store, req[r])]
    /\ readers' = readers
    /\ UNCHANGED <<store, call, ret, keyVars, registered, writer, poisoned, cmd>>
    /\ UNCHANGED logVars

\* catch_all: endpoints.get(req.method(), path), the response, the guard
\* dropped
CatchAllRespond(r) ==
    /\ Running
    /\ req[r].pc = "hold"
    /\ req' = [req EXCEPT ![r] = CatchAllResponse(store, req[r])]
    /\ readers' = readers \ {r}
    /\ UNCHANGED <<store, call, ret, keyVars, registered, writer, poisoned, cmd>>
    /\ UNCHANGED logVars

\* the response has been sent, the Logger middleware writes its line for the
\* request: the slot is free for the next request
ReqComplete(r) ==
    /\ Running
    /\ req[r].pc = "done"
    /\ req' = [req EXCEPT ![r] = IdleReq]
    /\ chan' = Log(chan, "INFO", "access", None)
    /\ sent' = Log(sent, "INFO", "access", None)
    /\ messages' = messages
    /\ UNCHANGED <<store, call, ret, keyVars, registered, readers, writer, poisoned, cmd>>

\* the requests in flight for (method, segments) no longer start after the last
\* returned write on it
Overtaken(method, segments) ==
    [r \in Reqs |->
        IF /\ req[r].pc \in {"wait", "hold"}
           /\ req[r].method = method
           /\ Normalize(req[r].path) = segments
        THEN [req[r] EXCEPT !.expect = "any"]
        ELSE req[r]]

\* DrainLog that puts the lines received in front of the messages
DrainLogInFront ==
    /\ cmd.pc = "drain"
    /\ messages' = chan \o messages
    /\ chan' = <<>>
    /\ cmd' = [cmd EXCEPT !.pc = "idle"]
    /\ UNCHANGED <<store, call, ret, keyVars, registered, readers, writer, poisoned, req,
                   sent>>

\* App::run at the top of its loop: the lines in the channel are received and
\* pushed to messages, then the frame is drawn and handle_events polls
DrainLog ==
    /\ cmd.pc = "drain"
    /\ messages' = messages \o chan
    /\ chan' = <<>>
    /\ cmd' = [cmd EXCEPT !.pc = "idle"]
    /\ UNCHANGED <<store, call, ret, keyVars, registered, readers, writer, poisoned, req,
                   sent>>

\* handle_events: no key within the poll timeout, or a key that runs no
\* command
PollTimeout ==
    /\ cmd.pc = "idle"
    /\ cmd' = [cmd EXCEPT !.pc = "drain"]
    /\ UNCHANGED <<store, call, ret, keyVars, registered, readers, writer, poisoned, req>>
    /\ UNCHANGED logVars

\* handle_key_event: 'q' in normal mode, App::run returns Ok
Quit ==
    /\ cmd.pc = "idle"
    /\ cmd' = [cmd EXCEPT !.pc = "exited", !.result = "Ok"]
    /\ UNCHANGED <<store, call, ret, keyVars, registered, readers, writer, poisoned, req>>
    /\ UNCHANGED logVars

\* execute_command on a line clap rejects for its METHOD token: the error is
\* logged as a warning and the command is over
RejectedCmd(line, token) ==
    [IdleCmd EXCEPT !.pc = "ret", !.op = "rejected", !.result = "Ok",
                    !.line = line, !.token = token]

\* execute_command: `endpoint add METHOD path response`
CmdAdd(token, path, body) ==
    LET method == AddMethod(token)
        echoed == Log(chan, "DEBUG", "> input", None)
        echoedSent == Log(sent, "DEBUG", "> input", None)
    IN  /\ cmd.pc = "idle"
        /\ Len(sent) < MaxLines
        /\ IF method = None
           THEN /\ cmd' = RejectedCmd("add", token)
                /\ chan' = Log(echoed, "WARN", "invalid value", None)
                /\ sent' = Log(echoedSent, "WARN", "invalid value", None)
                /\ req' = req
           ELSE /\ EntryCount(Add(store, method, ValidPath(path), body).entries)
                      <= MaxEntries
                /\ cmd' = [IdleCmd EXCEPT !.pc = "wait", !.op = "add",
                                          !.method = method, !.path = path,
                                          !.body = body]
                /\ chan' = echoed
                /\ sent' = echoedSent
                /\ req' = Overtaken(method, Normalize(path))
        /\ messages' = messages
        /\ UNCHANGED <<store, call, ret, keyVars, registered, readers, writer, poisoned>>

\* execute_command: `endpoint delete METHOD path`
CmdDelete(token, path) ==
    LET method == DeleteMethod(token)
        echoed == Log(chan, "DEBUG", "> input", None)
        echoedSent == Log(sent, "DEBUG", "> input", None)
    IN  /\ cmd.pc = "idle"
        /\ Len(sent) < MaxLines
        /\ IF method = None
           THEN /\ cmd' = RejectedCmd("delete", token)
                /\ chan' = Log(echoed, "WARN", "invalid value", None)
                /\ sent' = Log(echoedSent, "WARN", "invalid value", None)
                /\ req' = req
           ELSE /\ cmd' = [IdleCmd EXCEPT !.pc = "wait", !.op = "delete",
                                          !.method = method, !.path = path]
                /\ chan' = echoed
                /\ sent' = echoedSent
                /\ req' = Overtaken(method, Normalize(path))
        /\ messages' = messages
        /\ UNCHANGED <<store, call, ret, keyVars, registered, readers, writer, poisoned>>

\* execute_command: `endpoint list [METHOD]`, the token None without METHOD
CmdList(token) ==
    LET by_method == IF token = None THEN None ELSE ListMethod(token)
        echoed == Log(chan, "DEBUG", "> input", None)
        echoedSent == Log(sent, "DEBUG", "> input", None)
    IN  /\ cmd.pc = "idle"
        /\ Len(sent) < MaxLines
        /\ IF token # None /\ by_method = None
           THEN /\ cmd' = RejectedCmd("list", token)
                /\ chan' = Log(echoed, "WARN", "invalid value", None)
                /\ sent' = Log(echoedSent, "WARN", "invalid value", None)
           ELSE /\ cmd' = [IdleCmd EXCEPT !.pc = "wait", !.op = "list",
                                          !.method = by_method]
                /\ chan' = echoed
                /\ sent' = echoedSent
        /\ messages' = messages
        /\ UNCHANGED <<store, call, ret, keyVars, registered, readers, writer, poisoned,
                       req>>

\* endpoints.write() of add_endpoint and delete_endpoint, which waits until no
\* guard is held; on a poisoned lock it is Err, mapped to LockFailed
EndpointsWrite ==
    /\ cmd.pc = "wait"
    /\ cmd.op \in {"add", "delete"}
    /\ writer = None
    /\ readers = {}
    /\ IF poisoned
       THEN /\ cmd' = [cmd EXCEPT !.pc = "ret", !.result = "LockFailed"]
            /\ writer' = writer
       ELSE /\ cmd' = [cmd EXCEPT !.pc = "hold"]
            /\ writer' = "console"
    /\ UNCHANGED <<store, call, ret, keyVars, registered, readers, poisoned, req>>
    /\ UNCHANGED logVars

\* add_endpoint under the write guard: add(method, &valid_path, body) as far
\* as the nodes of the path are created
AddEndpointWalk ==
    /\ cmd.pc = "hold"
    /\ cmd.op = "add"
    /\ store' = AddCreated(store, cmd.method, ValidPath(cmd.path))
    /\ cmd' = [cmd EXCEPT !.pc = "mid"]
    /\ UNCHANGED <<call, ret, keyVars, registered, readers, writer, poisoned, req>>
    /\ UNCHANGED logVars

\* add_endpoint: the rest of add(method, &valid_path, body), was_update read
\* and the body written, the guard dropped at the end of the statement
AddEndpoint ==
    /\ cmd.pc = "mid"
    /\ cmd.op = "add"
    /\ LET r == Add(store, cmd.method, ValidPath(cmd.path), cmd.body)
       IN  /\ store' = r.entries
           /\ cmd' = [cmd EXCEPT !.pc = "ret", !.was_updated = r.was_update,
                                 !.result = "Ok"]
    /\ registered' = Register(registered, cmd.method, Normalize(cmd.path), cmd.body)
    /\ writer' = None
    /\ LET marker == IF Add(store, cmd.method, ValidPath(cmd.path), cmd.body).was_update
                     THEN "Updated" ELSE "Inserted"
       IN  /\ chan' = Log(chan, "INFO", marker, None)
           /\ sent' = Log(sent, "INFO", marker, None)
    /\ messages' = messages
    /\ UNCHANGED <<call, ret, keyVars, readers, poisoned, req>>

\* delete_endpoint under the write guard: delete(method, path) as far as the
\* body is taken out of its node
DeleteEndpointTake ==
    /\ cmd.pc = "hold"
    /\ cmd.op = "delete"
    /\ LET r == DeleteTaken(store, cmd.method, cmd.path)
       IN  /\ store' = r.entries
           /\ cmd' = [cmd EXCEPT !.pc = "mid", !.taken = r.body]
    /\ UNCHANGED <<call, ret, keyVars, registered, readers, writer, poisoned, req>>
    /\ UNCHANGED logVars

\* DeleteResult that reports the path with a '/' in front, as add_endpoint
\* logs it
DeleteResultValidPath(body, path) ==
    IF body = None THEN [result |-> "EndpointNotFound", errpath |-> ValidPath(path)]
    ELSE [result |-> "Ok", errpath |-> <<>>]

\* .ok_or_else(|| InternalError::EndpointNotFound(path.to_owned())) on the
\* body delete returned
DeleteResult(body, path) ==
    IF body = None THEN [result |-> "EndpointNotFound", errpath |-> path]
    ELSE [result |-> "Ok", errpath |-> <<>>]

\* delete_endpoint: the rest of delete(method, path), the nodes left empty
\* removed, none mapped to EndpointNotFound(path), the guard dropped at the end
\* of the statement
DeleteEndpoint ==
    /\ cmd.pc = "mid"
    /\ cmd.op = "delete"
    /\ store' = DeleteUnwind(store, cmd.method, cmd.path)
    /\ cmd' = [cmd EXCEPT !.pc = "ret",
                          !.result = DeleteResult(cmd.taken, cmd.path).result,
                          !.errpath = DeleteResult(cmd.taken, cmd.path).errpath]
    /\ registered' =
          IF RegBody(cmd.method, Normalize(cmd.path)) # None
          THEN Register(registered, cmd.method, Normalize(cmd.path), Deleted)
          ELSE registered
    /\ writer' = None
    /\ IF cmd.taken # None
       THEN /\ chan' = Log(chan, "INFO", "Removed", None)
            /\ sent' = Log(sent, "INFO", "Removed", None)
       ELSE /\ chan' = chan
            /\ sent' = sent
    /\ messages' = messages
    /\ UNCHANGED <<call, ret, keyVars, readers, poisoned, req>>

\* list_endpoints: endpoints.read(), which waits while the write guard is
\* held; on a poisoned lock it is Err, mapped to LockFailed
ListEndpointsRead ==
    /\ cmd.pc = "wait"
    /\ cmd.op = "list"
    /\ writer = None
    /\ IF poisoned
       THEN /\ cmd' = [cmd EXCEPT !.pc = "ret", !.result = "LockFailed"]
            /\ readers' = readers
       ELSE /\ cmd' = [cmd EXCEPT !.pc = "hold"]
            /\ readers' = readers \cup {"console"}
    /\ UNCHANGED <<store, call, ret, keyVars, registered, writer, poisoned, req>>
    /\ UNCHANGED logVars

\* list_endpoints: the listing under the read guard, one line when the store
\* is empty and otherwise one line for each group of entries(by_method), in
\* the order the HashMap gives its keys; the guard dropped on return
ListEndpoints ==
    /\ cmd.pc = "hold"
    /\ cmd.op = "list"
    /\ cmd' = [cmd EXCEPT !.pc = "ret", !.result = "Ok"]
    /\ readers' = readers \ {"console"}
    /\ IF IsEmpty(store)
       THEN /\ chan' = Log(chan, "INFO", "No user defined endpoints", None)
            /\ sent' = Log(sent, "INFO", "No user defined endpoints", None)
       ELSE \E order \in Orders({g[1] : g \in Entries(store, cmd.method)}) :
                /\ chan' = LogGroups(chan, order)
                /\ sent' = LogGroups(sent, order)
    /\ messages' = messages
    /\ UNCHANGED <<store, call, ret, keyVars, registered, writer, poisoned, req>>

\* execute_command after the call: Ok goes on to the next command; an Err is
\* passed up by `?` through handle_key_event and handle_events to App::run,
\* which returns it to main
CmdReturn ==
    /\ cmd.pc = "ret"
    /\ cmd' = IF cmd.result = "Ok" THEN [IdleCmd EXCEPT !.pc = "drain"]
              ELSE [cmd EXCEPT !.pc = "exited"]
    /\ UNCHANGED <<store, call, ret, keyVars, registered, readers, writer, poisoned, req>>
    /\ UNCHANGED logVars

NextServer ==
    \/ \E r \in Reqs, q \in Requests : Health(r, q.method, q.path)
    \/ \E r \in Reqs, q \in Requests : CatchAllEnter(r, q.method, q.path)
    \/ \E r \in Reqs : CatchAllRead(r)
    \/ \E r \in Reqs : CatchAllRespond(r)
    \/ \E r \in Reqs : ReqComplete(r)
    \/ DrainLog
    \/ PollTimeout
    \/ Quit
    \/ \E t \in MethodTokens, p \in ConsolePaths, b \in Bodies : CmdAdd(t, p, b)
    \/ \E t \in MethodTokens, p \in ConsolePaths : CmdDelete(t, p)
    \/ \E t \in MethodTokens \cup {None} : CmdList(t)
    \/ EndpointsWrite
    \/ AddEndpointWalk
    \/ AddEndpoint
    \/ DeleteEndpointTake
    \/ DeleteEndpoint
    \/ ListEndpointsRead
    \/ ListEndpoints
    \/ CmdReturn

SpecServer == Init /\ [][NextServer]_vars

\* the steps the console thread takes by itself: the loop of App::run and the
\* command it is executing
ConsoleRuns ==
    \/ DrainLog
    \/ PollTimeout
    \/ EndpointsWrite
    \/ AddEndpointWalk
    \/ AddEndpoint
    \/ DeleteEndpointTake
    \/ DeleteEndpoint
    \/ ListEndpointsRead
    \/ ListEndpoints
    \/ CmdReturn

\* the steps the listener takes by itself on a request it has received
ListenerRuns ==
    \/ \E r \in Reqs : CatchAllRead(r)
    \/ \E r \in Reqs : CatchAllRespond(r)
    \/ \E r \in Reqs : ReqComplete(r)

\* the requests and the command lines of the runs in which the delivery of
\* the log lines is followed: the health request and one other, one path and
\* one body, a METHOD token `endpoint delete` takes and one it rejects
LogRequests ==
    {[method |-> "GET", path |-> HealthPath],
     [method |-> "GET", path |-> <<"/", "a">>]}
LogTokens == {"get", "GET"}
LogPaths == {<<"a">>}
LogBodies == {"b1"}

NextLog ==
    \/ \E r \in Reqs, q \in LogRequests : Health(r, q.method, q.path)
    \/ \E r \in Reqs, q \in LogRequests : CatchAllEnter(r, q.method, q.path)
    \/ \E r \in Reqs : CatchAllRead(r)
    \/ \E r \in Reqs : CatchAllRespond(r)
    \/ \E r \in Reqs : ReqComplete(r)
    \/ DrainLog
    \/ PollTimeout
    \/ Quit
    \/ \E t \in LogTokens, p \in LogPaths, b \in LogBodies : CmdAdd(t, p, b)
    \/ \E t \in LogTokens, p \in LogPaths : CmdDelete(t, p)
    \/ \E t \in LogTokens \cup {None} : CmdList(t)
    \/ EndpointsWrite
    \/ AddEndpointWalk
    \/ AddEndpoint
    \/ DeleteEndpointTake
    \/ DeleteEndpoint
    \/ ListEndpointsRead
    \/ ListEndpoints
    \/ CmdReturn

\* the server with its threads scheduled: the console thread and the listener
\* each go on while they can; keys and requests arrive or not
SpecLog ==
    Init /\ [][NextLog]_vars /\ WF_vars(ConsoleRuns) /\ WF_vars(ListenerRuns)

\* the lock becomes poisoned, as a std::sync::RwLock does when a thread
\* panics while it holds the write guard.  No path of the program panics
\* there; the step is there to take the Err branches of read() and write().
PoisonLock ==
    /\ Running
    /\ ~poisoned
    /\ writer = None
    /\ poisoned' = TRUE
    /\ UNCHANGED <<store, call, ret, keyVars, registered, readers, writer, req, cmd>>
    /\ UNCHANGED logVars

NextFault ==
    \/ NextServer
    \/ PoisonLock

SpecFault == Init /\ [][NextFault]_vars

(***************************************************************************)
(* The line editor of the console: handle_key_event and execute_command,   *)
(* with no request in flight.                                              *)
(***************************************************************************)
\* the command lines typed, with the aliases command.rs declares:
\* `ep a get a b`, `ep d get a` and `ep l`
TypedLines ==
    {<<"e", "p", " ", "a", " ", "g", "e", "t", " ", "a", " ", "b">>,
     <<"e", "p", " ", "d", " ", "g", "e", "t", " ", "a">>,
     <<"e", "p", " ", "l">>}

\* the characters of the typed lines
KeyChars == UNION {{line[i] : i \in 1..Len(line)} : line \in TypedLines}

\* s is the beginning of a typed line
TypedPrefix(s) ==
    \E line \in TypedLines : Len(s) <= Len(line) /\ SubSeq(line, 1, Len(s)) = s

\* str::trim().is_empty()
IsBlank(s) == \A i \in 1..Len(s) : s[i] = " "

\* str::trim_end() of a line whose only whitespace is the space
RECURSIVE TrimEndSpaces(_)
TrimEndSpaces(s) ==
    IF s # <<>> /\ s[Len(s)] = " " THEN TrimEndSpaces(SubSeq(s, 1, Len(s) - 1))
    ELSE s

\* str::rfind(' '): the place of the last space counted from 1, 0 for None
RFindSpace(s) ==
    IF \E i \in 1..Len(s) : s[i] = " "
    THEN CHOOSE i \in 1..Len(s) : s[i] = " " /\ \A j \in (i + 1)..Len(s) : s[j] # " "
    ELSE 0

\* the Ctrl-W arm: the line up to and with the last space in front of the
\* last word, the empty line when there is no such space
DeleteWord(s) == SubSeq(s, 1, RFindSpace(TrimEndSpaces(s)))

\* the String of a sequence of characters
RECURSIVE Str(_)
Str(chars) == IF chars = <<>> THEN "" ELSE Head(chars) \o Str(Tail(chars))

\* shlex::split of a line without quotes, backslashes or '#': the words
\* between the spaces
RECURSIVE ShlexFrom(_, _)
ShlexFrom(s, cur) ==
    IF s = <<>> THEN IF cur = <<>> THEN <<>> ELSE <<cur>>
    ELSE IF Head(s) = " "
         THEN (IF cur = <<>> THEN <<>> ELSE <<cur>>) \o ShlexFrom(Tail(s), <<>>)
         ELSE ShlexFrom(Tail(s), Append(cur, Head(s)))

ShlexSplit(s) == ShlexFrom(s, <<>>)

\* the names and aliases of the subcommands
EndpointNames == {"endpoint", "ep"}

AddNames == {"add", "a", "ad", "update", "u", "up"}

DeleteNames == {"delete", "d", "del"}

ListNames == {"list", "l"}

\* what Cli::try_parse_from makes of the words: an action of `endpoint` with
\* its arguments, "help" for the help subcommand clap adds (an Err of kind
\* DisplayHelp), "error" for every other Err.  No word begins with '-'.
NoCli == [kind |-> "error", method |-> None, path |-> <<>>, body |-> None]

ParseCli(args) ==
    LET n == Len(args)
        word(i) == Str(args[i])
    IN  IF n = 0 THEN NoCli
        ELSE IF word(1) = "help" /\ n = 1 THEN [NoCli EXCEPT !.kind = "help"]
        ELSE IF word(1) \notin EndpointNames \/ n = 1 THEN NoCli
        ELSE IF word(2) = "help" /\ n = 2 THEN [NoCli EXCEPT !.kind = "help"]
        ELSE IF word(2) \in AddNames
             THEN IF n = 5 /\ AddMethod(word(3)) # None
                  THEN [kind |-> "add", method |-> AddMethod(word(3)),
                        path |-> args[4], body |-> word(5)]
                  ELSE NoCli
        ELSE IF word(2) \in DeleteNames
             THEN IF n = 4 /\ DeleteMethod(word(3)) # None
                  THEN [kind |-> "delete", method |-> DeleteMethod(word(3)),
                        path |-> args[4], body |-> None]
                  ELSE NoCli
        ELSE IF word(2) \in ListNames
             THEN IF n = 2 THEN [NoCli EXCEPT !.kind = "list"]
                  ELSE IF n = 3 /\ ListMethod(word(3)) # None
                  THEN [NoCli EXCEPT !.kind = "list", !.method = ListMethod(word(3))]
                  ELSE NoCli
        ELSE NoCli

\* history_backward: the index after Up
history_backward(index, h) ==
    IF index # NoIndex /\ index[1] < Len(h) THEN Some(index[1] + 1)
    ELSE IF index = NoIndex /\ h # <<>> THEN Some(1)
    ELSE index

\* history_forward: the index after Down
history_forward(index) ==
    IF index # NoIndex /\ index[1] > 1 THEN Some(index[1] - 1)
    ELSE NoIndex

\* what an index outside the vector gives: a panic
OutOfBounds == "index out of bounds"

\* history(): the line the index recalls, counted from the newest, the empty
\* line for None
HistoryAt(index, h) ==
    IF index = NoIndex THEN <<>>
    ELSE IF Len(h) - index[1] + 1 \in 1..Len(h) THEN h[Len(h) - index[1] + 1]
    ELSE OutOfBounds

\* a key has been handled without an error: App::run goes round its loop
KeyHandled == cmd' = [cmd EXCEPT !.pc = "drain"]

\* 'q' in normal mode
KeyQ ==
    /\ mode = "Normal"
    /\ Quit

\* 'i' in normal mode
KeyI ==
    /\ cmd.pc = "idle"
    /\ mode = "Normal"
    /\ mode' = "Insert"
    /\ KeyHandled
    /\ UNCHANGED <<store, call, ret, registered, readers, writer, poisoned, req>>
    /\ UNCHANGED <<logVars, input, history, history_index>>

\* Esc in insert mode
KeyEsc ==
    /\ cmd.pc = "idle"
    /\ mode = "Insert"
    /\ mode' = "Normal"
    /\ KeyHandled
    /\ UNCHANGED <<store, call, ret, registered, readers, writer, poisoned, req>>
    /\ UNCHANGED <<logVars, input, history, history_index>>

\* a key of insert mode that edits the line
EditLine(line) ==
    /\ cmd.pc = "idle"
    /\ mode = "Insert"
    /\ input' = line
    /\ KeyHandled
    /\ UNCHANGED <<store, call, ret, registered, readers, writer, poisoned, req>>
    /\ UNCHANGED <<logVars, history, history_index, mode>>

\* Ctrl-U
KeyCtrlU == EditLine(<<>>)

\* Ctrl-W
KeyCtrlW == EditLine(DeleteWord(input))

\* a character
KeyChar(c) ==
    /\ TypedPrefix(Append(input, c))
    /\ EditLine(Append(input, c))

\* Backspace: String::pop
KeyBackspace ==
    EditLine(IF input = <<>> THEN input ELSE SubSeq(input, 1, Len(input) - 1))

\* a key that moves in the history: the index is moved and the line it
\* recalls becomes the input
Recall(index) ==
    /\ cmd.pc = "idle"
    /\ mode = "Insert"
    /\ history_index' = index
    /\ IF HistoryAt(index, history) = OutOfBounds
       THEN /\ cmd' = [cmd EXCEPT !.pc = "exited", !.result = "panic"]
            /\ input' = input
       ELSE /\ KeyHandled
            /\ input' = HistoryAt(index, history)
    /\ UNCHANGED <<store, call, ret, registered, readers, writer, poisoned, req>>
    /\ UNCHANGED <<logVars, history, mode>>

\* Up
KeyUp == Recall(history_backward(history_index, history))

\* Down
KeyDown == Recall(history_forward(history_index))

\* execute_command after the command returned Ok or was not parsed: the line
\* goes to the history, the index and the input are reset
Executed ==
    /\ history' = Append(history, input)
    /\ history_index' = NoIndex
    /\ input' = <<>>
    /\ cmd' = [IdleCmd EXCEPT !.pc = "drain"]

\* Enter in insert mode: execute_command, the table free.  A blank line
\* returns at once; the Err of delete_endpoint leaves by `?` before the
\* history is touched and ends App::run.
KeyEnter ==
    LET cli == ParseCli(ShlexSplit(input))
        echoed == Log(chan, "DEBUG", "> input", None)
        echoedSent == Log(sent, "DEBUG", "> input", None)
        added == Add(store, cli.method, ValidPath(cli.path), cli.body)
        deleted == Delete(store, cli.method, cli.path)
    IN  /\ cmd.pc = "idle"
        /\ mode = "Insert"
        /\ writer = None /\ readers = {} /\ ~poisoned
        /\ IF IsBlank(input)
           THEN /\ KeyHandled
                /\ UNCHANGED <<store, registered, chan, sent>>
                /\ UNCHANGED <<input, history, history_index>>
           ELSE /\ Len(history) < MaxHistory
                /\ CASE cli.kind = "add" ->
                          /\ store' = added.entries
                          /\ registered' = Register(registered, cli.method,
                                                    Normalize(cli.path), cli.body)
                          /\ LET marker == IF added.was_update THEN "Updated"
                                           ELSE "Inserted"
                             IN  /\ chan' = Log(echoed, "INFO", marker, None)
                                 /\ sent' = Log(echoedSent, "INFO", marker, None)
                          /\ Executed
                     [] cli.kind = "delete" /\ deleted.body # None ->
                          /\ store' = deleted.entries
                          /\ registered' = Register(registered, cli.method,
                                                    Normalize(cli.path), Deleted)
                          /\ chan' = Log(echoed, "INFO", "Removed", None)
                          /\ sent' = Log(echoedSent, "INFO", "Removed", None)
                          /\ Executed
                     [] cli.kind = "delete" /\ deleted.body = None ->
                          /\ store' = deleted.entries
                          /\ registered' = registered
                          /\ chan' = echoed
                          /\ sent' = echoedSent
                          /\ cmd' = [IdleCmd EXCEPT
                                        !.pc = "exited", !.op = "delete",
                                        !.method = cli.method, !.path = cli.path,
                                        !.result = DeleteResult(None, cli.path).result,
                                        !.errpath = DeleteResult(None, cli.path).errpath]
                          /\ UNCHANGED <<input, history, history_index>>
                     [] cli.kind = "list" ->
                          /\ IF IsEmpty(store)
                             THEN /\ chan' = Log(echoed, "INFO",
                                                 "No user defined endpoints", None)
                                  /\ sent' = Log(echoedSent, "INFO",
                                                 "No user defined endpoints", None)
                             ELSE \E order \in Orders({g[1] : g \in Entries(store, cli.method)}) :
                                      /\ chan' = LogGroups(echoed, order)
                                      /\ sent' = LogGroups(echoedSent, order)
                          /\ UNCHANGED <<store, registered>>
                          /\ Executed
                     [] cli.kind = "help" ->
                          /\ chan' = Log(echoed, "INFO", "help", None)
                          /\ sent' = Log(echoedSent, "INFO", "help", None)
                          /\ UNCHANGED <<store, registered>>
                          /\ Executed
                     [] cli.kind = "error" ->
                          /\ chan' = Log(echoed, "WARN", "error", None)
                          /\ sent' = Log(echoedSent, "WARN", "error", None)
                          /\ UNCHANGED <<store, registered>>
                          /\ Executed
        /\ UNCHANGED <<call, ret, readers, writer, poisoned, req, messages, mode>>

NextKeys ==
    \/ DrainLog
    \/ PollTimeout
    \/ KeyQ
    \/ KeyI
    \/ KeyEsc
    \/ KeyCtrlU
    \/ KeyCtrlW
    \/ \E c \in KeyChars : KeyChar(c)
    \/ KeyBackspace
    \/ KeyUp
    \/ KeyDown
    \/ KeyEnter

SpecKeys == Init /\ [][NextKeys]_vars


(***************************************************************************)
(* Properties of the store.                                                *)
(***************************************************************************)
\* the segment list of each path string
NormalizeOf == [p \in PathStrings |-> Normalize(p)]

\* the path strings that normalize to the segment list of path
SameAs(path) == {q \in PathStrings : NormalizeOf[q] = NormalizeOf[path]}

\* the path strings that denote another segment list than path
OtherThan(path) == {q \in PathStrings : NormalizeOf[q] # NormalizeOf[path]}

\* no call on the store is in progress
BetweenCalls == call = NoCall

\* add walks the path add_endpoint passes down for p to the segment list of p
EndpointPathIsSamePath ==
    \A p \in PathStrings : WalkOrCreateSegments(ValidPath(p)) = NormalizeOf[p]

\* C1: add, get and delete agree on path identity.  While the body b of an
\* add(m, p, b) is registered, for every path string q that normalizes to the
\* segment list of p, get(m, q) returns b and delete(m, q) returns b and
\* leaves get(m, q) none; and the path add_endpoint passes down for p (a '/'
\* put in front of a path that lacks it) is walked by add to the segment list
\* of p, so an entry registered through add_endpoint is the same entry.
C1_PathIdentity ==
    /\ EndpointPathIsSamePath
    /\ BetweenCalls =>
          \A k \in RegisteredKeys :
              \A q \in {x \in PathStrings : NormalizeOf[x] = k[2]} :
                  /\ Get(store, k[1], q) = registered[k]
                  /\ Delete(store, k[1], q).body = registered[k]
                  /\ Get(Delete(store, k[1], q).entries, k[1], q) = None

\* /a has been registered by an add with the path "a/", which lacks the
\* leading '/' and has a trailing one; it is found under "/a" and deleted
\* under "//a"
C1_Witness ==
    /\ call.op = "add"
    /\ call.path = <<"a", "/">>
    /\ RegBody(call.method, <<<<"a">>>>) = call.body
    /\ Get(store, call.method, <<"/", "a">>) = call.body
    /\ Delete(store, call.method, <<"/", "/", "a">>).body = call.body

\* C2: add(m, p, b) returns false exactly when no body was registered at
\* (m, normalize(p)) right before the call and true exactly when one was, and
\* in both cases get(m, p) returns b afterwards.
C2_AddInsertOrUpdate ==
    [][call'.op = "add" =>
        /\ ret'.was_update = (RegBody(call'.method, Normalize(call'.path)) # None)
        /\ Get(store', call'.method, call'.path) = call'.body]_vars

\* an add that reported an update and left its own body in place
C2_Witness ==
    /\ call.op = "add"
    /\ ret.was_update
    /\ call.body = "b2"
    /\ Get(store, call.method, call.path) = "b2"

\* C3: between any two calls, get(m, p) returns a body only when one is
\* registered at exactly the segment list of p, and then that body: neither a
\* proper prefix nor an extension of a registered path matches, and a
\* registered node is found whether or not it has descendants.
C3_ExactMatch ==
    BetweenCalls =>
        \A m \in Methods, p \in PathStrings :
            Get(store, m, p) = RegBody(m, NormalizeOf[p])

\* only /a/a is registered for GET: its prefixes "/" and "/a" give none
C3_Witness ==
    /\ RegisteredKeys = {<<"GET", <<<<"a">>, <<"a">>>>>>}
    /\ Get(store, "GET", <<"a", "/", "a">>) # None
    /\ Get(store, "GET", <<"/", "a">>) = None
    /\ Get(store, "GET", <<"/">>) = None

\* no node of the subtree is without both body and child
RECURSIVE NoEmptyNode(_)
NoEmptyNode(node) ==
    /\ ~NodeIsEmpty(node)
    /\ \A s \in DOMAIN node.children : NoEmptyNode(node.children[s])

\* the methods that have a registered entry
RegisteredMethods == {k[1] : k \in RegisteredKeys}

\* C4: after every add and delete no tree holds a node with neither body nor
\* child and no method key maps to a tree without a body; the method keys are
\* the methods with an entry, is_empty() is true exactly when nothing is
\* registered, and list(None) has one group, with at least one entry, for
\* each method with an entry and no other group.
C4_NoEmptyNode ==
    /\ \A m \in DOMAIN store :
          /\ NoEmptyNode(store[m])
          /\ EntriesBy(store, m) # <<>>
    /\ DOMAIN store = RegisteredMethods
    /\ IsEmpty(store) <=> (RegisteredKeys = {})
    /\ {g[1] : g \in Entries(store, None)} = RegisteredMethods
    /\ \A g \in Entries(store, None) : g[2] # <<>>

\* the only entry, two segments deep, has just been deleted: the chain and the
\* method key are gone
C4_Witness ==
    /\ call.op = "delete"
    /\ ret.body # None
    /\ Len(Normalize(call.path)) = 2
    /\ store = EmptyStore
    /\ IsEmpty(store)

\* C5: delete(m, p) with no body registered at (m, normalize(p)) returns none
\* and leaves the table as it was (so every lookup and the enumeration are the
\* same before and after), whether the method has no tree, no node exists on
\* the path, the path ends at a node without a body, or the path goes past a
\* leaf.
C5_DeleteMissIsNoOp ==
    [][(call'.op = "delete" /\ RegBody(call'.method, Normalize(call'.path)) = None) =>
        /\ ret'.body = None
        /\ store' = store
        /\ \A m \in Methods : EntriesBy(store', m) = EntriesBy(store, m)]_vars

\* a delete of /a, an intermediate node without a body, while /a/a is
\* registered: none is returned and /a/a is still there
C5_Witness ==
    /\ call.op = "delete"
    /\ Normalize(call.path) = <<<<"a">>>>
    /\ ret.body = None
    /\ RegBody(call.method, <<<<"a">>, <<"a">>>>) # None
    /\ Get(store, call.method, <<"a", "/", "a">>) # None

\* C6: delete(m, p) of a registered path returns the registered body, leaves
\* get(m, p) none, and leaves get(m, q) as it was for every other path q of
\* the method: siblings, ancestors and descendants of p.
C6_DeleteOnlyThatEntry ==
    [][(call'.op = "delete" /\ RegBody(call'.method, Normalize(call'.path)) # None) =>
        /\ ret'.body = RegBody(call'.method, Normalize(call'.path))
        /\ \A q \in SameAs(call'.path) : Get(store', call'.method, q) = None
        /\ \A q \in OtherThan(call'.path) :
              Get(store', call'.method, q) = Get(store, call'.method, q)]_vars

\* /a has just been deleted and its descendant /a/a is still found
C6_Witness ==
    /\ call.op = "delete"
    /\ Normalize(call.path) = <<<<"a">>>>
    /\ ret.body # None
    /\ Get(store, call.method, <<"a", "/", "a">>) # None

\* C7: an add or a delete on one method leaves get unchanged for every path
\* of every other method.
C7_MethodsIndependent ==
    [][call'.op \in {"add", "delete"} =>
        \A m2 \in Methods \ {call'.method}, q \in PathStrings :
            Get(store', m2, q) = Get(store, m2, q)]_vars

\* the GET entry at a path has just been deleted, it was the last GET entry,
\* and the POST entry at the same path is still found
C7_Witness ==
    /\ call.op = "delete"
    /\ call.method = "GET"
    /\ ret.body # None
    /\ "GET" \notin DOMAIN store
    /\ Get(store, "POST", call.path) # None

\* the path strings of the root and of the one-segment paths
RootOrSingle == {p \in PathStrings : Len(NormalizeOf[p]) <= 1}

\* C8: the root path ("/" or "") is an entry of its own: between any two
\* calls get on a root path
\* returns the body registered at the empty segment list and get on a
\* one-segment path the body registered at that segment, a delete of one of
\* them leaves the lookups of the others as they were, and the enumeration
\* reports the root body first, under the path "/", and no other entry under
\* that path.
C8_RootIsOwnEntry ==
    /\ [](BetweenCalls => \A m \in Methods :
            /\ \A p \in RootOrSingle : Get(store, m, p) = RegBody(m, NormalizeOf[p])
            /\ LET listed == EntriesBy(store, m)
               IN  /\ RegBody(m, <<>>) # None =>
                        listed # <<>> /\ listed[1] = <<<<"/">>, RegBody(m, <<>>)>>
                   /\ \A i \in 1..Len(listed) :
                        listed[i][1] = <<"/">> => (i = 1 /\ RegBody(m, <<>>) # None))
    /\ [][(call'.op = "delete" /\ call'.path \in RootOrSingle) =>
            \A q \in RootOrSingle \cap OtherThan(call'.path) :
                Get(store', call'.method, q) = Get(store, call'.method, q)]_vars

\* the root and /a are both registered for one method, with different bodies,
\* and each lookup returns its own; the root is listed as "/"
C8_Witness ==
    /\ RegBody("GET", <<>>) = "b1"
    /\ RegBody("GET", <<<<"a">>>>) = "b2"
    /\ Get(store, "GET", <<"/">>) = "b1"
    /\ Get(store, "GET", <<>>) = "b1"
    /\ Get(store, "GET", <<"/", "a">>) = "b2"
    /\ EntriesBy(store, "GET") = << <<<<"/">>, "b1">>, <<<<"/", "a">>, "b2">> >>

(***************************************************************************)
(* Properties of the dispatcher and of the shared table.                   *)
(***************************************************************************)
\* the request in slot r is answered in this step
Answered(r) == req[r].pc # "done" /\ req'[r].pc = "done"

\* C9: a request other than the liveness request takes read access once and
\* is answered from get(method, path): 200 with the registered body when one
\* is registered at (method, path), 404 naming the requested path when none
\* is, 500 when read access cannot be acquired (the lock is poisoned), and
\* nothing else.
C9_Dispatch ==
    [][\A r \in Reqs :
        /\ (req[r].pc = "wait" /\ req'[r].pc = "hold") =>
              /\ ~poisoned
              /\ r \notin readers
              /\ readers' = readers \cup {r}
        /\ (Answered(r) /\ ~IsHealth(req'[r].method, req'[r].path)) =>
              LET registeredBody == RegBody(req[r].method, Normalize(req[r].path))
              IN  /\ req'[r].method = req[r].method
                  /\ req'[r].path = req[r].path
                  /\ req[r].pc \in {"wait", "hold"}
                  /\ req[r].pc = "wait" =>
                        /\ poisoned
                        /\ req'[r].status = 500
                        /\ readers' = readers
                  /\ req[r].pc = "hold" =>
                        /\ r \in readers
                        /\ readers' = readers \ {r}
                        /\ IF registeredBody # None
                           THEN req'[r].status = 200 /\ req'[r].body = registeredBody
                           ELSE req'[r].status = 404 /\ req'[r].errpath = req[r].path]_vars

\* a POST on the health path, which the health service does not match, is
\* answered 200 with the body an operator registered there
C9_Witness ==
    /\ req["r1"].pc = "done"
    /\ req["r1"].method = "POST"
    /\ req["r1"].path = HealthPath
    /\ req["r1"].status = 200
    /\ req["r1"].body = "b2"

\* a request answered 404 with the requested path in the payload
C9_Witness404 ==
    /\ req["r1"].pc = "done"
    /\ req["r1"].status = 404
    /\ req["r1"].errpath = <<"/", "a">>

\* a request answered 500 on a poisoned lock
C9_Witness500 ==
    /\ req["r1"].pc = "done"
    /\ req["r1"].status = 500

\* the answer the claim C10 lets a finished request have: 200 with b when the
\* last write on its (method, path) that returned before the request started
\* is an add of b, 404 when it is a delete that removed the entry; nothing is
\* asked when a write on it was in progress after the request started
AnsweredFromLastWrite(request) ==
    /\ request.expect \in Bodies =>
          request.status = 200 /\ request.body = request.expect
    /\ request.expect = Deleted => request.status = 404

\* C10 as stated: once add_endpoint(m, p, b) has returned, every request for
\* (m, p) that starts afterwards is answered 200 with b until the next add or
\* delete on (m, p), and once delete_endpoint(m, p) has returned successfully
\* it is answered 404 until (m, p) is added again.
C10_AsStated ==
    \A r \in Reqs : req[r].pc = "done" => AnsweredFromLastWrite(req[r])

\* C10, amended: the same for every request for (m, p) other than the
\* liveness request GET /api/health, which is answered 200 "OK" whatever the
\* table holds.
C10_ExceptHealth ==
    \A r \in Reqs :
        (req[r].pc = "done" /\ ~IsHealth(req[r].method, req[r].path)) =>
            AnsweredFromLastWrite(req[r])

\* a request that started after a delete_endpoint on its path had returned
\* successfully, answered 404
C10_Witness ==
    /\ req["r1"].pc = "done"
    /\ req["r1"].expect = Deleted
    /\ req["r1"].status = 404
    /\ req["r1"].method = "GET"
    /\ req["r1"].path = <<"/", "a">>

\* a request that started after an add_endpoint("a") had returned, answered
\* 200 with the body added
C10_Witness200 ==
    /\ req["r1"].pc = "done"
    /\ req["r1"].expect = "b2"
    /\ req["r1"].status = 200
    /\ req["r1"].body = "b2"
    /\ cmd.pc = "hold"

(***************************************************************************)
(* Properties of the lock around the table.                                *)
(***************************************************************************)
\* the path strings the listener and the console are given
ServerPaths == ConsolePaths \cup {q.path : q \in Requests}

\* the table is as the completed writes left it: every lookup finds exactly
\* what is registered and no node is without both body and child
BetweenWrites ==
    /\ \A m \in DOMAIN store : NoEmptyNode(store[m])
    /\ \A m \in Methods, p \in ServerPaths \cup PathStrings :
          Get(store, m, p) = RegBody(m, Normalize(p))

\* C11: in every interleaving of requests and console commands, the write
\* guard has at most one holder, the console command that is inside add or
\* delete, no read guard is held while it is, the read guards are held by
\* exactly the dispatches and the listing that are reading, and whenever a
\* read guard is held the table is as the completed writes left it, never
\* with the nodes of an add created and the body not yet set nor with the
\* body of a delete taken and the empty nodes not yet removed.
C11_LockExclusion ==
    /\ writer \in {None, "console"}
    /\ writer = "console" <=>
          (cmd.op \in {"add", "delete"} /\ cmd.pc \in {"hold", "mid"})
    /\ writer # None => readers = {}
    /\ readers = {r \in Reqs : req[r].pc = "hold"} \cup
                 (IF cmd.op = "list" /\ cmd.pc = "hold" THEN {"console"} ELSE {})
    /\ readers # {} => BetweenWrites
    /\ cmd.pc # "mid" => BetweenWrites

\* a request waits for the read guard while add_endpoint has created the nodes
\* of the path and not yet set the body
C11_Witness ==
    /\ cmd.pc = "mid"
    /\ cmd.op = "add"
    /\ \E m \in DOMAIN store : ~NoEmptyNode(store[m])
    /\ \E r \in Reqs : req[r].pc = "wait" /\ req[r].method = cmd.method
                         /\ Normalize(req[r].path) = Normalize(cmd.path)

\* a request waits while delete_endpoint has taken the body and not yet
\* removed the empty node
C11_WitnessDelete ==
    /\ cmd.pc = "mid"
    /\ cmd.op = "delete"
    /\ \E m \in DOMAIN store : ~NoEmptyNode(store[m])
    /\ \E r \in Reqs : req[r].pc = "wait"

\* a dispatch and the listing hold the table at the same time
C11_WitnessReaders == Cardinality(readers) = 2

(***************************************************************************)
(* Properties of the console.                                              *)
(***************************************************************************)
\* the errors a table operation returns to the console
TableErrors == {"EndpointNotFound", "LockFailed"}

\* C12: no error of a table operation ends the process: when a console
\* command has failed with EndpointNotFound or with LockFailed, the console
\* loop has not returned (it goes on to the next command) and the table is as
\* the completed writes left it.
C12_NoErrorIsFatal ==
    cmd.result \in TableErrors => (cmd.pc # "exited" /\ BetweenWrites)

(***************************************************************************)
(* Properties of the health service.                                       *)
(***************************************************************************)
\* the request in the slot is GET /api/health
HealthRequest(request) == request.method = "GET" /\ request.path = HealthPath

\* C13: GET /api/health is answered 200 "OK" whatever the table holds: every
\* answer to it is 200 "OK", and it is answered in the step it is taken up,
\* before any lookup: no guard of the lock is taken, waited for or released,
\* whether an endpoint is registered at (GET, "/api/health"), was deleted
\* there, a write is going on or the lock is poisoned.
C13_HealthAlwaysOk ==
    /\ [](\A r \in Reqs :
            (req[r].pc = "done" /\ HealthRequest(req[r])) =>
                (req[r].status = 200 /\ req[r].body = HealthBody))
    /\ [][\A r \in Reqs :
            (req[r].pc = "idle" /\ req'[r].pc # "idle" /\ HealthRequest(req'[r])) =>
                /\ req'[r].pc = "done"
                /\ req'[r].status = 200
                /\ req'[r].body = HealthBody
                /\ readers' = readers
                /\ writer' = writer
                /\ store' = store]_vars

\* GET /api/health answered 200 "OK" while another body is registered at
\* (GET, "/api/health")
C13_Witness ==
    \E r \in Reqs :
        /\ req[r].pc = "done"
        /\ HealthRequest(req[r])
        /\ req[r].status = 200
        /\ req[r].body = HealthBody
        /\ Get(store, "GET", HealthPath) \in Bodies

\* GET /api/health answered 200 "OK" after a delete at (GET, "/api/health")
\* has succeeded
C13_WitnessDeleted ==
    \E r \in Reqs :
        /\ req[r].pc = "done"
        /\ HealthRequest(req[r])
        /\ req[r].expect = Deleted
        /\ req[r].body = HealthBody

\* GET /api/health answered 200 "OK" while the lock is poisoned
C13_WitnessPoisoned ==
    \E r \in Reqs :
        /\ req[r].pc = "done"
        /\ HealthRequest(req[r])
        /\ req[r].body = HealthBody
        /\ poisoned

(***************************************************************************)
(* Properties of delete_endpoint.                                          *)
(***************************************************************************)
\* delete_endpoint returns in this step
DeleteReturns == cmd.op = "delete" /\ cmd.pc # "ret" /\ cmd'.pc = "ret"

\* C14: delete_endpoint(m, p) returns EndpointNotFound carrying p as it was
\* given exactly when no body is registered at (m, p), the table left as it
\* was; otherwise it returns Ok, no lookup of (m, p) finds a body any more and
\* every other lookup is as before.  It returns nothing else: a not-found is
\* neither a lock failure nor another failure.
C14_DeleteNotFound ==
    [][DeleteReturns =>
        IF RegBody(cmd.method, Normalize(cmd.path)) = None
        THEN /\ cmd'.result = "EndpointNotFound"
             /\ cmd'.errpath = cmd.path
             /\ store' = store
        ELSE /\ cmd'.result = "Ok"
             /\ \A p \in ServerPaths :
                   Get(store', cmd.method, p) =
                       IF Normalize(p) = Normalize(cmd.path) THEN None
                       ELSE RegBody(cmd.method, Normalize(p))
             /\ \A m \in Methods \ {cmd.method}, p \in ServerPaths :
                   Get(store', m, p) = RegBody(m, Normalize(p))]_vars

\* delete_endpoint has returned EndpointNotFound for a path given without
\* its leading '/', while the other method has an entry at that path
C14_Witness ==
    /\ cmd.pc = "ret"
    /\ cmd.op = "delete"
    /\ cmd.result = "EndpointNotFound"
    /\ cmd.errpath = <<"a">>
    /\ \E m \in Methods \ {cmd.method} : Get(store, m, <<"a">>) # None

\* delete_endpoint has returned Ok
C14_WitnessOk ==
    /\ cmd.pc = "ret"
    /\ cmd.op = "delete"
    /\ cmd.result = "Ok"
    /\ store # EmptyStore

(***************************************************************************)
(* Properties of the enumeration.                                          *)
(***************************************************************************)
\* the segment list a comes before the segment list b in a depth-first walk
\* that visits a node before its descendants and siblings in ascending order
RECURSIVE VisitedBefore(_, _)
VisitedBefore(a, b) ==
    IF a = <<>> THEN b # <<>>
    ELSE IF b = <<>> THEN FALSE
    ELSE IF Head(a) = Head(b) THEN VisitedBefore(Tail(a), Tail(b))
    ELSE StrLess(Head(a), Head(b))

\* '/' followed by the segments joined by '/'
RECURSIVE JoinSegments(_)
JoinSegments(segments) ==
    IF segments = <<>> THEN <<>>
    ELSE IF Len(segments) = 1 THEN Head(segments)
    ELSE Head(segments) \o <<"/">> \o JoinSegments(Tail(segments))

FullPath(segments) == <<"/">> \o JoinSegments(segments)

\* the entries registered for the method, in the order of VisitedBefore
RECURSIVE ListingOf(_, _)
ListingOf(method, keys) ==
    IF keys = {} THEN <<>>
    ELSE LET first == CHOOSE k \in keys : \A o \in keys \ {k} : VisitedBefore(k, o)
         IN  <<<<FullPath(first), registered[<<method, first>>]>>>>
                 \o ListingOf(method, keys \ {first})

\* C15: between any two calls, the enumeration of a method's tree is the
\* sequence of the entries registered for the method, each once, with the
\* path '/' followed by the segments joined by '/', a node before its
\* descendants and siblings in ascending order of the segment; it is a
\* function of what is registered, whatever calls registered it.
C15_Enumeration ==
    BetweenCalls =>
        \A m \in Methods :
            EntriesBy(store, m) =
                ListingOf(m, {k[2] : k \in {x \in RegisteredKeys : x[1] = m}})

\* between two calls, an entry and one below it are enumerated, the upper one
\* first
C15_Witness ==
    /\ BetweenCalls
    /\ \E b, c \in Bodies :
          EntriesBy(store, "GET") = <<<<<<"/", "a">>, b>>, <<<<"/", "a", "/", "a">>, c>>>>

\* between two calls, two siblings are enumerated in ascending order
C15_WitnessSiblings ==
    /\ BetweenCalls
    /\ \E b, c \in Bodies :
          EntriesBy(store, "GET") = <<<<<<"/", "a">>, b>>, <<<<"/", "a", "a">>, c>>>>

(***************************************************************************)
(* Properties of the log lines.                                            *)
(***************************************************************************)
\* the console takes a step of add_endpoint or delete_endpoint
WriteStep ==
    /\ cmd' # cmd
    /\ cmd.op \in {"add", "delete"}
    /\ cmd.pc \in {"wait", "hold", "mid"}

\* exactly the one line is sent in this step
SendsOnly(line) == chan' = Append(chan, line) /\ sent' = Append(sent, line)

\* nothing is sent in this step
SendsNothing == chan' = chan /\ sent' = sent

\* C16: an add_endpoint that succeeds sends exactly one line, at level Info,
\* marked "Inserted" when no body was registered at (method, path) before
\* the call and "Updated" when one was; a delete_endpoint that succeeds sends
\* exactly one line, at level Info; an add_endpoint or delete_endpoint that
\* fails sends none, and none is sent before the operation returns.
C16_OneInfoLine ==
    [][WriteStep =>
        IF cmd'.pc = "ret" /\ cmd'.result = "Ok"
        THEN IF cmd.op = "add"
             THEN SendsOnly(Line("INFO",
                                 IF RegBody(cmd.method, Normalize(cmd.path)) = None
                                 THEN "Inserted" ELSE "Updated",
                                 None))
             ELSE SendsOnly(Line("INFO", "Removed", None))
        ELSE SendsNothing]_vars

\* add_endpoint has returned from an update with the line "Updated" sent
C16_Witness ==
    /\ cmd.pc = "ret"
    /\ cmd.op = "add"
    /\ cmd.was_updated
    /\ sent[Len(sent)].text = "Updated"

\* add_endpoint has returned from an insert at a path that was deleted, with
\* the line "Inserted" sent
C16_WitnessInserted ==
    /\ cmd.pc = "ret"
    /\ cmd.op = "add"
    /\ sent[Len(sent)].text = "Inserted"
    /\ Len(sent) = 4

\* add_endpoint has failed on a poisoned lock, no line sent
C16_WitnessFailed ==
    /\ cmd.pc = "ret"
    /\ cmd.op = "add"
    /\ cmd.result = "LockFailed"
    /\ sent = <<StartingLine>>

\* C17: when the console is done with a table operation that failed with
\* EndpointNotFound or LockFailed, a line at level Warn or Error that reports
\* the failure has been sent on the log channel.
C17_FailureIsLogged ==
    [][(cmd.pc = "ret" /\ cmd.result \in TableErrors /\ cmd' # cmd) =>
          \E i \in DOMAIN sent' :
              /\ sent'[i].level \in {"WARN", "ERROR"}
              /\ sent'[i].text = cmd.result]_vars

\* list_endpoints returns in this step
ListReturns == cmd.op = "list" /\ cmd.pc = "hold" /\ cmd'.pc = "ret"

\* the methods the list command is to enumerate that have an entry
ListedMethods ==
    {m \in RegisteredMethods : cmd.method = None \/ m = cmd.method}

\* C18: a list command never completes without a line: it sends at least one,
\* and when it finds nothing to enumerate, the table being empty or the
\* method of the filter having no entry, it sends exactly one line, at level
\* Info.
C18_ListNeverSilent ==
    [][ListReturns =>
          /\ Len(sent') > Len(sent)
          /\ ListedMethods = {} =>
                /\ Len(sent') = Len(sent) + 1
                /\ sent'[Len(sent')].level = "INFO"]_vars

(***************************************************************************)
(* Properties of the command line.                                         *)
(***************************************************************************)
\* C19: `endpoint delete` accepts every METHOD token `endpoint add` accepts:
\* no `endpoint delete` line is rejected for a token that `endpoint add`
\* takes for a method, so the endpoint added as GET is deleted as GET.
C19_SameSpellings ==
    (cmd.op = "rejected" /\ cmd.line = "delete") => AddMethod(cmd.token) = None

(***************************************************************************)
(* Properties of the log channel.                                          *)
(***************************************************************************)
\* C20: the lines sent on the log channel are, in the order they were sent,
\* the messages of the console followed by the lines still in the channel:
\* none is dropped, duplicated or reordered; and while the console loop is
\* running, every line sent is eventually among the messages: again and again
\* the messages are all the lines sent so far.
C20_LogDelivery ==
    /\ [](messages \o chan = sent)
    /\ []<>(messages = sent \/ ~Running)

\* the console has received a line of the listener after a line of its own
\* command, while a further line waits in the channel
C20_Witness ==
    /\ Len(messages) >= 3
    /\ messages[2].text = "Inserted"
    /\ messages[3].text = "access"
    /\ chan # <<>>

(***************************************************************************)
(* The table as a flat map.                                                *)
(***************************************************************************)
\* the bodies in the subtree of node, each with the segment list of its node
RECURSIVE BodiesBelow(_, _)
BodiesBelow(node, segments) ==
    (IF node.body # None THEN {<<segments, node.body>>} ELSE {})
    \cup UNION {BodiesBelow(node.children[s], Append(segments, s)) :
                  s \in DOMAIN node.children}

\* the flat map the table stands for: <<method, segment list>> -> body
FlatMap(entries) ==
    LET pairs == UNION {{<<<<m, e[1]>>, e[2]>> : e \in BodiesBelow(entries[m], <<>>)} :
                          m \in DOMAIN entries}
    IN  [k \in {x[1] : x \in pairs} |-> (CHOOSE x \in pairs : x[1] = k)[2]]

\* the operations of a flat map
FlatAdd(M, key, body) ==
    [map |-> [k \in DOMAIN M \cup {key} |-> IF k = key THEN body ELSE M[k]],
     present |-> key \in DOMAIN M]

FlatDelete(M, key) ==
    [map |-> [k \in DOMAIN M \ {key} |-> M[k]],
     value |-> IF key \in DOMAIN M THEN M[key] ELSE None]

FlatGet(M, key) == IF key \in DOMAIN M THEN M[key] ELSE None

\* the entries the enumeration of the store gives, each <<method, full path,
\* body>>
Enumerated(entries) ==
    UNION {{<<g[1], g[2][i][1], g[2][i][2]>> : i \in DOMAIN g[2]} :
             g \in Entries(entries, None)}

\* C21: the table behaves as the flat map M it stands for: the empty table
\* stands for the empty map, add(m, p, b) sets M[m, normalize(p)] to b and
\* returns whether the key was present, delete(m, p) removes the key and
\* returns its value, none when it is absent, and between calls get(m, p) is
\* M[m, normalize(p)] and the enumeration lists the keys of M, each once with
\* its value.
C21_FlatMap ==
    /\ [](BetweenCalls =>
            LET M == FlatMap(store)
            IN  /\ \A m \in Methods, p \in PathStrings :
                      Get(store, m, p) = FlatGet(M, <<m, NormalizeOf[p]>>)
                /\ Enumerated(store) =
                      {<<k[1], FullPath(k[2]), M[k]>> : k \in DOMAIN M}
                /\ \A m \in Methods :
                      Len(EntriesBy(store, m)) =
                          Cardinality({k \in DOMAIN M : k[1] = m})
                /\ store = EmptyStore => DOMAIN M = {})
    /\ [][call'.op = "add" =>
            LET r == FlatAdd(FlatMap(store), <<call'.method, Normalize(call'.path)>>,
                             call'.body)
            IN  FlatMap(store') = r.map /\ ret'.was_update = r.present]_vars
    /\ [][call'.op = "delete" =>
            LET r == FlatDelete(FlatMap(store),
                                <<call'.method, Normalize(call'.path)>>)
            IN  FlatMap(store') = r.map /\ ret'.body = r.value]_vars

\* add has updated the body of an entry that has another entry below it
C21_Witness ==
    /\ call.op = "add"
    /\ ret.was_update
    /\ DOMAIN FlatMap(store) = {<<"GET", <<<<"a">>>>>>, <<"GET", <<<<"a">>, <<"a">>>>>>}

\* delete has removed one of two entries of the map
C21_WitnessDelete ==
    /\ call.op = "delete"
    /\ ret.body # None
    /\ Cardinality(DOMAIN FlatMap(store)) = 1

(***************************************************************************)
(* add followed by delete.                                                 *)
(***************************************************************************)
\* the nodes of the store: <<method, segment list of the node>>
RECURSIVE NodesBelow(_, _)
NodesBelow(node, segments) ==
    {segments} \cup UNION {NodesBelow(node.children[s], Append(segments, s)) :
                            s \in DOMAIN node.children}

Nodes(entries) ==
    UNION {{<<m, n>> : n \in NodesBelow(entries[m], <<>>)} : m \in DOMAIN entries}

\* C22: between calls, for every (m, p) with no body registered and every
\* body b, add(m, p, b) is an insert and delete(m, p) on its result returns b
\* and gives back the store as it was, method keys, nodes and bodies: the
\* nodes the delete removes are the nodes the add created, none of them
\* holds a body or has a child left, and the nodes that were there before
\* stay.
C22_AddThenDelete ==
    BetweenCalls =>
        \A m \in Methods, p \in PathStrings, b \in Bodies :
            Get(store, m, p) = None =>
                LET added == Add(store, m, p, b)
                    deleted == Delete(added.entries, m, p)
                IN  /\ ~added.was_update
                    /\ deleted.body = b
                    /\ deleted.entries = store
                    /\ Nodes(added.entries) \ Nodes(deleted.entries) =
                          Nodes(added.entries) \ Nodes(store)
                    /\ Nodes(store) \subseteq Nodes(deleted.entries)

\* between calls the store holds a body at "a" under GET and none below it:
\* add at "a/a" creates one node under a node that stays, add at "a" under
\* POST creates the method root
C22_Witness ==
    /\ BetweenCalls
    /\ Get(store, "GET", <<"a">>) # None
    /\ Get(store, "GET", <<"a", "/", "a">>) = None
    /\ "POST" \notin DOMAIN store
    /\ Nodes(Add(store, "GET", <<"a", "/", "a">>, "b1").entries) # Nodes(store)

\* between calls the node of the path is there without a body, above an
\* entry: add and delete create and remove no node
C22_WitnessInterior ==
    /\ BetweenCalls
    /\ Get(store, "GET", <<"a">>) = None
    /\ Get(store, "GET", <<"a", "/", "a">>) # None

(***************************************************************************)
(* Progress of the table operations.                                       *)
(***************************************************************************)
\* the console is inside add_endpoint, delete_endpoint or list_endpoints
CmdInTable == cmd.pc \in {"wait", "hold", "mid"}

\* the dispatcher is at work on the request of the slot
ReqInTable(r) == req[r].pc \in {"wait", "hold"}

\* a guard is taken only by an operation waiting for it, and is gone when
\* the operation returns
GuardSteps ==
    /\ \A r \in Reqs :
         /\ (r \in readers' \ readers) => (req[r].pc = "wait")
         /\ (req[r].pc = "hold" /\ req'[r].pc # "hold") => (r \notin readers')
    /\ ("console" \in readers' \ readers \/ (writer = None /\ writer' # None))
         => (cmd.pc = "wait")
    /\ (CmdInTable /\ cmd'.pc = "ret")
         => ("console" \notin readers' /\ writer' = None)

\* guards are held only inside the operations, in the running process a
\* holder can always take its next step, and an operation under way leaves
\* some thread a step to take
GuardsAndSteps ==
    /\ \A r \in Reqs : (req[r].pc # "hold") => (r \notin readers)
    /\ (~CmdInTable) => ("console" \notin readers /\ writer = None)
    /\ \A r \in Reqs : (Running /\ r \in readers) => ENABLED CatchAllRespond(r)
    /\ ("console" \in readers \/ writer # None) => ENABLED ConsoleRuns
    /\ (Running /\ (CmdInTable \/ \E r \in Reqs : ReqInTable(r)))
         => ENABLED (ConsoleRuns \/ ListenerRuns)

\* C23: every table operation takes the lock only where it waits for it, not
\* holding it yet, holds it only between taking it and returning, can take
\* its next step whenever it holds it, and while an operation is under way
\* some thread can take a step; with the threads scheduled, every console
\* operation on the table returns and every dispatch answers, unless the
\* process ends first.
C23_NoDeadlock ==
    /\ [][GuardSteps]_vars
    /\ [](GuardsAndSteps)
    /\ []<>(~CmdInTable)
    /\ \A r \in Reqs : []<>(~ReqInTable(r) \/ ~Running)

\* add_endpoint waits for the write guard while a dispatch holds a read guard
C23_Witness ==
    /\ cmd.pc = "wait"
    /\ cmd.op = "add"
    /\ \E r \in Reqs : r \in readers

\* a dispatch waits for the read guard while delete_endpoint holds the write
\* guard
C23_WitnessReaderWaits ==
    /\ writer # None
    /\ cmd.op = "delete"
    /\ \E r \in Reqs : req[r].pc = "wait"

(***************************************************************************)
(* The history of the command line.                                        *)
(***************************************************************************)
\* how many times Up has been pressed in a row once it is pressed again,
\* counted from the index
UpsPressed == IF history_index = NoIndex THEN 1 ELSE history_index[1] + 1

\* the k-th most recent command line
MostRecent(k) == history[Len(history) - k + 1]

\* Enter on a line that is not blank: a command is executed
CommandExecuted == KeyEnter /\ ~IsBlank(input)

\* C24: history_index is always None or Some(i) with 1 <= i <= history.len()
\* and no recall is out of bounds; the k-th Up in a row after a command, k up
\* to history.len(), shows the k-th most recent command; Down from the most
\* recent entry gives the empty input and the index None; and every command
\* executed leaves the index None.
C24_HistoryIndex ==
    /\ [](/\ history_index = NoIndex \/ history_index[1] \in 1..Len(history)
          /\ cmd.result # "panic")
    /\ [][(KeyUp /\ UpsPressed <= Len(history))
             => /\ history_index' = Some(UpsPressed)
                /\ input' = MostRecent(UpsPressed)]_vars
    /\ [][(KeyDown /\ history_index = Some(1))
             => /\ history_index' = NoIndex
                /\ input' = <<>>]_vars
    /\ [][CommandExecuted => history_index' = NoIndex]_vars

=============================================================================
